---- MODULE Spec2Model ----
\* Model of example/ioserv.c: the command-line driver of an elliptics node.
\* main() parses the options, selects a backend, optionally goes to the
\* background, creates the node, registers transforms and remote peers,
\* optionally joins, runs the requested operations in program order and
\* then either sleeps forever (joined) or destroys the node and returns.
\*
\* The library behind the dnet_* calls, the backends and getopt are not part
\* of the file: every call into them is a step whose result is chosen from
\* the values its return type allows (0 or a negative error code, a pointer
\* or NULL).  Each such call is appended to the history variable `calls`.
EXTENDS Integers, Sequences, FiniteSets, TLC

\* ---------------------------------------------------------------- bounds
\* Largest number of options on the command line of a whole run (Spec).
MaxArgs == 4

\* Largest number of options when the getopt loop is explored alone
\* (SpecGetopt): long enough to fill the transform chain and go on.
MaxOpts == 5

\* ------------------------------------------------------------- constants
\* int trans_max = 5: size of the trans[] array.
trans_max == 5

NULL == "NULL"

\* The two processes that can exist: the one started by the shell and the
\* one fork() creates in dnet_background().
Procs == {"main", "child"}

\* Negative error codes a library call can return (two, so that "the code
\* of the last failure" differs from "the code of some failure").
ErrCodes == {-5, -110}

\* Results of an int-returning library call.
IntResults == {0} \cup ErrCodes

\* Results of the parsers of common.c (dnet_parse_addr, dnet_parse_numeric_id)
\* and of dnet_crypto_engine_init: 0, or the error of a malformed argument.
ParseResults == {0, -22}

\* Endpoints dnet_parse_addr can produce from a well-formed argument.
Addrs == {"a1", "a2"}

\* Identifiers dnet_parse_numeric_id can produce; "zero" is the all-zero one.
IdValues == {"zero", "id1"}

\* Transform names dnet_crypto_engine_init resolves.
TransNames == {"sha1", "md5"}

VARIABLES
    pc,          \* pc[p]: where process p is in main()/dnet_background()
    exit_code,   \* exit_code[p]: the exit status once pc[p] = "exited"
    nargs,       \* options of argv that getopt has not returned yet
    opts,        \* the char* / int option variables of main (lines 105-112)
    cfg,         \* struct dnet_config cfg
    rem,         \* struct dnet_config rem, the scratch for -r
    remotes,     \* struct dnet_config *remotes, have_remote entries
    trans,       \* struct dnet_crypto_engine *trans[], trans_num entries
    dropped,     \* "Only %d transformation functions allowed" lines on stderr
    trans_id,    \* unsigned char trans_id[DNET_ID_SIZE]
    id,          \* unsigned char *id
    n,           \* struct dnet_node *n
    i,           \* int i
    err,         \* int err
    detached,    \* setsid() and the three close() calls were made
    calls        \* history: the library calls made so far, in order

vars == <<pc, exit_code, nargs, opts, cfg, rem, remotes, trans, dropped,
          trans_id, id, n, i, err, detached, calls>>

have_remote == Len(remotes)
trans_num == Len(trans)

\* A value of trans_id that was never written: reading it may give anything.
Uninit == "uninit"

\* struct dnet_config after memset and the assignments of lines 117-123,
\* reduced to the fields main() branches on or a backend/parser fills in.
DefaultConfig ==
    [addr |-> NULL, join |-> FALSE, command_private |-> NULL,
     command_handler |-> NULL, log |-> NULL]

DefaultOpts ==
    [writef |-> NULL, readf |-> NULL, historyf |-> NULL, removef |-> NULL,
     cmd |-> NULL, lookup |-> NULL, stat |-> FALSE, daemon |-> FALSE,
     tc |-> FALSE, root |-> NULL, logfile |-> NULL]

InitArgs(max) ==
    /\ pc = [p \in Procs |-> IF p = "main" THEN "getopt" ELSE "none"]
    /\ exit_code = [p \in Procs |-> 0]
    /\ nargs \in 0..max
    /\ opts = DefaultOpts
    /\ cfg = DefaultConfig
    /\ rem = DefaultConfig
    /\ remotes = <<>>
    /\ trans = <<>>
    /\ dropped = 0
    /\ trans_id = Uninit
    /\ id = NULL
    /\ n = NULL
    /\ i = 0
    /\ err = 0
    /\ detached = FALSE
    /\ calls = <<>>

Init == InitArgs(MaxArgs)

\* ---------------------------------------------------------------- helpers
Goto(p, where) == pc' = [pc EXCEPT ![p] = where]

\* return <code> from main, or exit(<code>).
Exit(p, code) ==
    /\ pc' = [pc EXCEPT ![p] = "exited"]
    /\ exit_code' = [exit_code EXCEPT ![p] = code]

\* One library call in the history.  ret is meaningful once done is TRUE.
Call(p, fn, arg, idarg, hist, ret, done) ==
    [proc |-> p, fn |-> fn, arg |-> arg, id |-> idarg, hist |-> hist,
     ret |-> ret, done |-> done]

Record(c) == calls' = Append(calls, c)

\* The last call of the history returns r.
Return(r) ==
    calls' = [calls EXCEPT ![Len(calls)] = [@ EXCEPT !.ret = r, !.done = TRUE]]

\* ------------------------------------------------- option parsing, 129-236
\* getopt returned one more option: the loop body runs for it.
Parsing(p) == pc[p] = "getopt" /\ nargs > 0

\* A case that only stores optarg (or 1) in one of main's variables.
SetOpt(p, field, value) ==
    /\ Parsing(p)
    /\ nargs' = nargs - 1
    /\ opts' = [opts EXCEPT ![field] = value]
    /\ UNCHANGED <<pc, exit_code, cfg, rem, remotes, trans, dropped,
                   trans_id, id, n, i, err, detached, calls>>

Case_u(p) == SetOpt(p, "removef", "file")
Case_t(p) == SetOpt(p, "tc", TRUE)
Case_s(p) == SetOpt(p, "stat", TRUE)
Case_H(p) == SetOpt(p, "historyf", "file")
Case_L(p) == SetOpt(p, "lookup", "file")
Case_D(p) == SetOpt(p, "daemon", TRUE)
Case_l(p) == SetOpt(p, "logfile", "log")
Case_c(p) == SetOpt(p, "cmd", "command")
Case_d(p) == SetOpt(p, "root", "dir")
Case_W(p) == SetOpt(p, "writef", "file")
Case_R(p) == SetOpt(p, "readf", "file")

\* -O -S -P -N -m -w -f store a number in offset, size, num_bits or a field
\* of cfg that main() never branches on; none of them can fail.
Case_number(p) ==
    /\ Parsing(p)
    /\ nargs' = nargs - 1
    /\ UNCHANGED <<pc, exit_code, opts, cfg, rem, remotes, trans, dropped,
                   trans_id, id, n, i, err, detached, calls>>

Case_j(p) ==
    /\ Parsing(p)
    /\ nargs' = nargs - 1
    /\ cfg' = [cfg EXCEPT !.join = TRUE]
    /\ UNCHANGED <<pc, exit_code, opts, rem, remotes, trans, dropped,
                   trans_id, id, n, i, err, detached, calls>>

\* case 'I': the transaction id; id points at trans_id afterwards.
Case_I(p) ==
    /\ Parsing(p)
    /\ nargs' = nargs - 1
    /\ \E r \in ParseResults :
         /\ err' = r
         /\ IF r # 0
              THEN /\ Exit(p, r)
                   /\ UNCHANGED <<trans_id, id>>
              ELSE /\ \E v \in IdValues : trans_id' = v
                   /\ id' = "trans_id"
                   /\ UNCHANGED <<pc, exit_code>>
    /\ UNCHANGED <<opts, cfg, rem, remotes, trans, dropped, n, i, detached,
                   calls>>

\* case 'i': the node id, parsed into cfg.id (a field nothing here reads).
Case_i(p) ==
    /\ Parsing(p)
    /\ nargs' = nargs - 1
    /\ \E r \in ParseResults :
         /\ err' = r
         /\ IF r # 0 THEN Exit(p, r) ELSE UNCHANGED <<pc, exit_code>>
    /\ UNCHANGED <<opts, cfg, rem, remotes, trans, dropped, trans_id, id, n,
                   i, detached, calls>>

\* (a variant of case 'a' without "if (err) return err;")
Case_a_Unchecked(p) ==
    /\ Parsing(p)
    /\ nargs' = nargs - 1
    /\ \E r \in ParseResults :
         /\ err' = r
         /\ IF r # 0
              THEN UNCHANGED cfg
              ELSE \E a \in Addrs : cfg' = [cfg EXCEPT !.addr = a]
    /\ UNCHANGED <<pc, exit_code, opts, rem, remotes, trans, dropped,
                   trans_id, id, n, i, detached, calls>>

\* case 'a': dnet_parse_addr(optarg, &cfg).
Case_a(p) ==
    /\ Parsing(p)
    /\ nargs' = nargs - 1
    /\ \E r \in ParseResults :
         /\ err' = r
         /\ IF r # 0
              THEN Exit(p, r) /\ UNCHANGED cfg
              ELSE /\ \E a \in Addrs : cfg' = [cfg EXCEPT !.addr = a]
                   /\ UNCHANGED <<pc, exit_code>>
    /\ UNCHANGED <<opts, rem, remotes, trans, dropped, trans_id, id, n, i,
                   detached, calls>>

\* (a variant in which every entry of remotes refers to the scratch struct)
Case_r_Aliased(p) ==
    /\ Parsing(p)
    /\ nargs' = nargs - 1
    /\ \E r \in ParseResults :
         /\ err' = r
         /\ IF r # 0
              THEN Exit(p, r) /\ UNCHANGED <<rem, remotes>>
              ELSE \E a \in Addrs :
                     /\ rem' = [rem EXCEPT !.addr = a]
                     /\ \/ /\ remotes' = [k \in 1..(Len(remotes) + 1) |-> rem']
                           /\ UNCHANGED <<pc, exit_code>>
                        \/ /\ Exit(p, -12)
                           /\ UNCHANGED remotes
    /\ UNCHANGED <<opts, cfg, trans, dropped, trans_id, id, n, i, detached,
                   calls>>

\* case 'r': dnet_parse_addr(optarg, &rem), then a copy of rem is appended
\* to remotes (realloc + memcpy); realloc can fail.
Case_r(p) ==
    /\ Parsing(p)
    /\ nargs' = nargs - 1
    /\ \E r \in ParseResults :
         /\ err' = r
         /\ IF r # 0
              THEN Exit(p, r) /\ UNCHANGED <<rem, remotes>>
              ELSE \E a \in Addrs :
                     /\ rem' = [rem EXCEPT !.addr = a]
                     /\ \/ /\ remotes' = Append(remotes, rem')
                           /\ UNCHANGED <<pc, exit_code>>
                        \/ /\ Exit(p, -12)
                           /\ UNCHANGED remotes
    /\ UNCHANGED <<opts, cfg, trans, dropped, trans_id, id, n, i, detached,
                   calls>>

\* (a variant that tests trans_num == trans_max)
Case_T_OffByOne(p) ==
    /\ Parsing(p)
    /\ nargs' = nargs - 1
    /\ IF trans_num = trans_max
         THEN /\ dropped' = dropped + 1
              /\ UNCHANGED <<pc, exit_code, trans, err>>
         ELSE /\ UNCHANGED dropped
              /\ \E r \in ParseResults :
                   /\ err' = r
                   /\ IF r # 0
                        THEN Exit(p, r) /\ UNCHANGED trans
                        ELSE /\ \E e \in TransNames :
                                  trans' = Append(trans, e)
                             /\ UNCHANGED <<pc, exit_code>>
    /\ UNCHANGED <<opts, cfg, rem, remotes, trans_id, id, n, i, detached,
                   calls>>

\* case 'T': one more transform engine, unless trans_num == trans_max - 1.
Case_T(p) ==
    /\ Parsing(p)
    /\ nargs' = nargs - 1
    /\ IF trans_num = trans_max - 1
         THEN /\ dropped' = dropped + 1
              /\ UNCHANGED <<pc, exit_code, trans, err>>
         ELSE /\ UNCHANGED dropped
              /\ \/ Exit(p, -12) /\ UNCHANGED <<trans, err>>
                 \/ \E r \in ParseResults :
                      /\ err' = r
                      /\ IF r # 0
                           THEN Exit(p, r) /\ UNCHANGED trans
                           ELSE /\ \E e \in TransNames :
                                     trans' = Append(trans, e)
                                /\ UNCHANGED <<pc, exit_code>>
    /\ UNCHANGED <<opts, cfg, rem, remotes, trans_id, id, n, i, detached,
                   calls>>

\* case 'h' and default: dnet_usage, return -1.
Case_h(p) ==
    /\ Parsing(p)
    /\ nargs' = nargs - 1
    /\ Exit(p, -1)
    /\ UNCHANGED <<opts, cfg, rem, remotes, trans, dropped, trans_id, id, n,
                   i, err, detached, calls>>



\* --------------------------------------------- the statements after the loop
\* main() is straight-line code: a sequence of if-blocks and two for loops.
\* A block whose condition is false is passed without a step; Applies gives
\* the condition of each block (the variables read are final after getopt).
\* (a variant with the join block placed after the operation blocks)
Stages_JoinLast ==
    <<"getopt", "logopen", "backend", "daemon", "node_create",
      "add_transform", "add_state", "write", "read", "history", "remove",
      "cmd", "lookup", "stat", "join", "finish">>

\* (a variant with the read-file block placed before the write-file block)
Stages_ReadFirst ==
    <<"getopt", "logopen", "backend", "daemon", "node_create",
      "add_transform", "add_state", "join", "read", "write", "history",
      "remove", "cmd", "lookup", "stat", "finish">>

Stages ==
    <<"getopt", "logopen", "backend", "daemon", "node_create",
      "add_transform", "add_state", "join", "write", "read", "history",
      "remove", "cmd", "lookup", "stat", "finish">>

Applies(stage) ==
    CASE stage = "logopen"       -> opts.logfile # NULL
      [] stage = "backend"       -> opts.root # NULL
      [] stage = "daemon"        -> opts.daemon
      [] stage = "add_transform" -> trans_num > 0
      [] stage = "add_state"     -> have_remote > 0
      [] stage = "join"          -> cfg.join
      [] stage = "write"         -> opts.writef # NULL
      [] stage = "read"          -> opts.readf # NULL
      [] stage = "history"       -> opts.historyf # NULL
      [] stage = "remove"        -> opts.removef # NULL
      [] stage = "cmd"           -> opts.cmd # NULL
      [] stage = "lookup"        -> opts.lookup # NULL
      [] stage = "stat"          -> opts.stat
      [] OTHER                   -> TRUE

StageIndex(stage) == CHOOSE k \in 1..Len(Stages) : Stages[k] = stage

\* The next block after `stage`, in program order, whose condition holds.
After(stage) ==
    LET later == {k \in (StageIndex(stage) + 1)..Len(Stages) :
                    Applies(Stages[k])}
    IN Stages[CHOOSE k \in later : \A m \in later : k <= m]

\* Process p has finished the block `stage` and goes on.
Proceed(p, stage) == Goto(p, After(stage))

\* getopt returns -1: the loop ends.
GetoptEnd(p) ==
    /\ pc[p] = "getopt"
    /\ nargs = 0
    /\ Proceed(p, "getopt")
    /\ UNCHANGED <<exit_code, nargs, opts, cfg, rem, remotes, trans, dropped,
                   trans_id, id, n, i, err, detached, calls>>

\* ------------------------------------------------------ log file, 238-251
LogOpen(p) ==
    /\ pc[p] = "logopen"
    /\ opts.logfile # NULL
    /\ \/ /\ cfg' = [cfg EXCEPT !.log = "dnet_common_log"]
          /\ Proceed(p, "logopen")
          /\ UNCHANGED <<exit_code, err>>
       \/ \E e \in ErrCodes :
            /\ err' = e
            /\ Exit(p, e)
            /\ UNCHANGED cfg
    /\ UNCHANGED <<nargs, opts, rem, remotes, trans, dropped, trans_id, id,
                   n, i, detached, calls>>

\* ------------------------------------------------ backend selection, 253-265
\* (a variant whose -t branch installs file_backend_command_handler)
Backend_MixedPair(p) ==
    /\ pc[p] = "backend"
    /\ opts.root # NULL
    /\ LET fn == IF opts.tc THEN "tc_backend_init"
                            ELSE "file_backend_setup_root"
           h  == IF opts.tc THEN "tc" ELSE "file"
       IN \/ /\ Record(Call(p, fn, opts.root, "-", 0, 0, TRUE))
             /\ cfg' = [cfg EXCEPT !.command_private = h,
                                   !.command_handler = "file"]
             /\ Proceed(p, "backend")
             /\ UNCHANGED exit_code
          \/ /\ Record(Call(p, fn, opts.root, "-", 0, -22, TRUE))
             /\ Exit(p, -22)
             /\ UNCHANGED cfg
    /\ UNCHANGED <<nargs, opts, rem, remotes, trans, dropped, trans_id, id,
                   n, i, err, detached>>

\* (a variant without the "if (!cfg.command_private) return -EINVAL;")
Backend_Unchecked(p) ==
    /\ pc[p] = "backend"
    /\ opts.root # NULL
    /\ LET fn == IF opts.tc THEN "tc_backend_init"
                            ELSE "file_backend_setup_root"
           h  == IF opts.tc THEN "tc" ELSE "file"
       IN \/ /\ Record(Call(p, fn, opts.root, "-", 0, 0, TRUE))
             /\ cfg' = [cfg EXCEPT !.command_private = h,
                                   !.command_handler = h]
          \/ /\ Record(Call(p, fn, opts.root, "-", 0, -22, TRUE))
             /\ cfg' = [cfg EXCEPT !.command_handler = h]
    /\ Proceed(p, "backend")
    /\ UNCHANGED <<exit_code, nargs, opts, rem, remotes, trans, dropped,
                   trans_id, id, n, i, err, detached>>

\* tc_backend_init / file_backend_setup_root return the handle or NULL.
Backend(p) ==
    /\ pc[p] = "backend"
    /\ opts.root # NULL
    /\ LET fn == IF opts.tc THEN "tc_backend_init"
                            ELSE "file_backend_setup_root"
           h  == IF opts.tc THEN "tc" ELSE "file"
       IN \/ /\ Record(Call(p, fn, opts.root, "-", 0, 0, TRUE))
             /\ cfg' = [cfg EXCEPT !.command_private = h,
                                   !.command_handler = h]
             /\ Proceed(p, "backend")
             /\ UNCHANGED exit_code
          \/ /\ Record(Call(p, fn, opts.root, "-", 0, -22, TRUE))
             /\ Exit(p, -22)
             /\ UNCHANGED cfg
    /\ UNCHANGED <<nargs, opts, rem, remotes, trans, dropped, trans_id, id,
                   n, i, err, detached>>

\* ------------------------------------ dnet_background, 46-68 and 267-268
\* fork() fails: the message is printed and -1 returned to main, which
\* calls dnet_background() as a statement and goes on.
ForkFailed(p) ==
    /\ Record(Call(p, "fork", "-", "-", 0, -1, TRUE))
    /\ Proceed(p, "daemon")

\* fork() succeeds: it returns the child's pid in p and 0 in the child.
ForkDone(p) ==
    /\ Record(Call(p, "fork", "-", "-", 0, 0, TRUE))
    /\ pc' = [pc EXCEPT ![p] = "bg_parent", !["child"] = "bg_child"]

Daemon(p) ==
    /\ pc[p] = "daemon"
    /\ opts.daemon
    /\ ForkFailed(p) \/ ForkDone(p)
    /\ UNCHANGED <<exit_code, nargs, opts, cfg, rem, remotes, trans, dropped,
                   trans_id, id, n, i, err, detached>>

\* (a variant in which the parent returns to main instead of exit(0))
BackgroundParent_Returns(p) ==
    /\ pc[p] = "bg_parent"
    /\ Proceed(p, "daemon")
    /\ UNCHANGED <<exit_code, nargs, opts, cfg, rem, remotes, trans, dropped,
                   trans_id, id, n, i, err, detached, calls>>

\* pid != 0: printf("Daemon pid"), exit(0).
BackgroundParent(p) ==
    /\ pc[p] = "bg_parent"
    /\ Exit(p, 0)
    /\ UNCHANGED <<nargs, opts, cfg, rem, remotes, trans, dropped, trans_id,
                   id, n, i, err, detached, calls>>

\* pid == 0: setsid, close(0..2), return 0 to main.
BackgroundChild(p) ==
    /\ pc[p] = "bg_child"
    /\ detached' = TRUE
    /\ Proceed(p, "daemon")
    /\ UNCHANGED <<exit_code, nargs, opts, cfg, rem, remotes, trans, dropped,
                   trans_id, id, n, i, err, calls>>

\* ------------------------------------------------------ node, 270-272
\* n = dnet_node_create(&cfg); the for statement that follows sets i = 0.
NodeCreate(p) ==
    /\ pc[p] = "node_create"
    /\ \/ /\ Record(Call(p, "dnet_node_create", "-", "-", 0, 0, TRUE))
          /\ n' = "node"
          /\ i' = 0
          /\ Proceed(p, "node_create")
          /\ UNCHANGED exit_code
       \/ /\ Record(Call(p, "dnet_node_create", "-", "-", 0, -1, TRUE))
          /\ Exit(p, -1)
          /\ UNCHANGED <<n, i>>
    /\ UNCHANGED <<nargs, opts, cfg, rem, remotes, trans, dropped, trans_id,
                   id, err, detached>>

\* ------------------------------------------------ transforms, 274-279
\* (a variant that walks the chain from its end: trans[trans_num - 1 - i])
AddTransform_Backwards(p) ==
    /\ pc[p] = "add_transform"
    /\ i < trans_num
    /\ \E r \in IntResults :
         /\ Record(Call(p, "dnet_add_transform", trans[trans_num - i], "-",
                        0, r, TRUE))
         /\ err' = r
         /\ IF r # 0
              THEN Exit(p, r) /\ UNCHANGED i
              ELSE IF i + 1 < trans_num
                     THEN i' = i + 1 /\ UNCHANGED <<pc, exit_code>>
                     ELSE /\ i' = IF have_remote > 0 THEN 0 ELSE i + 1
                          /\ Proceed(p, "add_transform")
                          /\ UNCHANGED exit_code
    /\ UNCHANGED <<nargs, opts, cfg, rem, remotes, trans, dropped,
                   trans_id, id, n, detached>>

\* One turn of the for loop (i counts from 0 in C, trans[i + 1] here).
\* After the last turn the loop over the remotes, if any, sets i = 0.
AddTransform(p) ==
    /\ pc[p] = "add_transform"
    /\ i < trans_num
    /\ \E r \in IntResults :
         /\ Record(Call(p, "dnet_add_transform", trans[i + 1], "-", 0, r,
                        TRUE))
         /\ err' = r
         /\ IF r # 0
              THEN Exit(p, r) /\ UNCHANGED i
              ELSE IF i + 1 < trans_num
                     THEN i' = i + 1 /\ UNCHANGED <<pc, exit_code>>
                     ELSE /\ i' = IF have_remote > 0 THEN 0 ELSE i + 1
                          /\ Proceed(p, "add_transform")
                          /\ UNCHANGED exit_code
    /\ UNCHANGED <<nargs, opts, cfg, rem, remotes, trans, dropped, trans_id,
                   id, n, detached>>

\* --------------------------------------------------- remotes, 281-284
\* (a variant that returns from main when a peer cannot be added)
AddState_Fatal(p) ==
    /\ pc[p] = "add_state"
    /\ i < have_remote
    /\ \E r \in IntResults :
         /\ Record(Call(p, "dnet_add_state", remotes[i + 1].addr, "-", 0, r,
                        TRUE))
         /\ err' = r
         /\ i' = i + 1
         /\ IF r # 0
              THEN Exit(p, r)
              ELSE /\ UNCHANGED exit_code
                   /\ IF i + 1 < have_remote
                        THEN UNCHANGED pc
                        ELSE Proceed(p, "add_state")
    /\ UNCHANGED <<nargs, opts, cfg, rem, remotes, trans, dropped,
                   trans_id, id, n, detached>>

\* One turn of the for loop: err = dnet_add_state(n, &remotes[i]).
AddState(p) ==
    /\ pc[p] = "add_state"
    /\ i < have_remote
    /\ \E r \in IntResults :
         /\ Record(Call(p, "dnet_add_state", remotes[i + 1].addr, "-", 0, r,
                        TRUE))
         /\ err' = r
         /\ i' = i + 1
         /\ IF i + 1 < have_remote
              THEN UNCHANGED pc
              ELSE Proceed(p, "add_state")
    /\ UNCHANGED <<exit_code, nargs, opts, cfg, rem, remotes, trans, dropped,
                   trans_id, id, n, detached>>

\* ------------------------------------------------------ join, 286-290
\* (a variant that goes on after a failed join)
Join_Ignored(p) ==
    /\ pc[p] = "join"
    /\ cfg.join
    /\ \E r \in IntResults :
         /\ Record(Call(p, "dnet_join", "-", "-", 0, r, TRUE))
         /\ err' = r
         /\ Proceed(p, "join")
         /\ UNCHANGED exit_code
    /\ UNCHANGED <<nargs, opts, cfg, rem, remotes, trans, dropped,
                   trans_id, id, n, i, detached>>

Join(p) ==
    /\ pc[p] = "join"
    /\ cfg.join
    /\ \E r \in IntResults :
         /\ Record(Call(p, "dnet_join", "-", "-", 0, r, TRUE))
         /\ err' = r
         /\ IF r # 0
              THEN Exit(p, r)
              ELSE Proceed(p, "join") /\ UNCHANGED exit_code
    /\ UNCHANGED <<nargs, opts, cfg, rem, remotes, trans, dropped, trans_id,
                   id, n, i, detached>>

\* ------------------------------------------------ operations, 292-332
\* The identifier argument of write, read and remove: the pointer id.
IdArg == IF id = NULL THEN NULL ELSE trans_id

\* The bytes dnet_send_cmd finds in trans_id[]: what -I parsed into it, or,
\* when -I was not given, whatever the stack held.
TransIdBytes == IF trans_id = Uninit THEN IdValues ELSE {trans_id}

\* (a variant of the block without "if (err) return err;")
Dispatch_NoReturn(p, stage, wait, requested, fn, arg, idarg, hist) ==
    \/ /\ pc[p] = stage
       /\ requested
       /\ Record(Call(p, fn, arg, idarg, hist, 0, FALSE))
       /\ Goto(p, wait)
       /\ UNCHANGED <<exit_code, err>>
    \/ /\ pc[p] = wait
       /\ \E r \in IntResults :
            /\ Return(r)
            /\ err' = r
            /\ Proceed(p, stage)
            /\ UNCHANGED exit_code

\* One "if (requested) { err = fn(...); if (err) return err; }" block.  The
\* call is entered in one step and returns in another; `wait` is the place
\* of the process while it is inside the call.
Dispatch(p, stage, wait, requested, fn, arg, idarg, hist) ==
    \/ /\ pc[p] = stage
       /\ requested
       /\ Record(Call(p, fn, arg, idarg, hist, 0, FALSE))
       /\ Goto(p, wait)
       /\ UNCHANGED <<exit_code, err>>
    \/ /\ pc[p] = wait
       /\ \E r \in IntResults :
            /\ Return(r)
            /\ err' = r
            /\ IF r # 0 THEN Exit(p, r)
                        ELSE Proceed(p, stage) /\ UNCHANGED exit_code

OpFrame ==
    UNCHANGED <<nargs, opts, cfg, rem, remotes, trans, dropped, trans_id,
                id, n, i, detached>>

WriteFile(p) ==
    /\ Dispatch(p, "write", "in_write", opts.writef # NULL,
                "dnet_write_file", opts.writef, IdArg, 0)
    /\ OpFrame

ReadFile(p) ==
    /\ Dispatch(p, "read", "in_read", opts.readf # NULL,
                "dnet_read_file", opts.readf, IdArg, 0)
    /\ OpFrame

ReadHistory(p) ==
    /\ Dispatch(p, "history", "in_history", opts.historyf # NULL,
                "dnet_read_file", opts.historyf, IdArg, 1)
    /\ OpFrame

RemoveFile(p) ==
    /\ Dispatch(p, "remove", "in_remove", opts.removef # NULL,
                "dnet_remove_file", opts.removef, IdArg, 0)
    /\ OpFrame

SendCmd(p) ==
    /\ \E bytes \in TransIdBytes :
         Dispatch(p, "cmd", "in_cmd", opts.cmd # NULL,
                  "dnet_send_cmd", opts.cmd, bytes, 0)
    /\ OpFrame

Lookup(p) ==
    /\ Dispatch(p, "lookup", "in_lookup", opts.lookup # NULL,
                "dnet_lookup", opts.lookup, "-", 0)
    /\ OpFrame

RequestStat(p) ==
    /\ Dispatch(p, "stat", "in_stat", opts.stat,
                "dnet_request_stat", "-", "-", 0)
    /\ OpFrame

\* ------------------------------------------------------- end, 334-344
\* (a variant without the sleep loop: the node is always destroyed)
Finish_NoSleep(p) ==
    /\ pc[p] = "finish"
    /\ Record(Call(p, "dnet_node_destroy", "-", "-", 0, 0, TRUE))
    /\ Exit(p, 0)
    /\ UNCHANGED <<nargs, opts, cfg, rem, remotes, trans, dropped,
                   trans_id, id, n, i, err, detached>>

\* Joined: enter while (1) sleep(1).  Otherwise dnet_node_destroy, return 0.
Finish(p) ==
    /\ pc[p] = "finish"
    /\ IF cfg.join
         THEN Goto(p, "sleep") /\ UNCHANGED <<exit_code, calls>>
         ELSE /\ Record(Call(p, "dnet_node_destroy", "-", "-", 0, 0, TRUE))
              /\ Exit(p, 0)
    /\ UNCHANGED <<nargs, opts, cfg, rem, remotes, trans, dropped, trans_id,
                   id, n, i, err, detached>>

\* One turn of while (1) sleep(1): nothing changes.
Sleep(p) ==
    /\ pc[p] = "sleep"
    /\ UNCHANGED vars

\* The while loop over getopt: one turn, or its end.
Getopt(p) ==
    \/ Case_u(p) \/ Case_t(p) \/ Case_s(p) \/ Case_H(p) \/ Case_L(p)
    \/ Case_D(p) \/ Case_l(p) \/ Case_c(p) \/ Case_d(p) \/ Case_W(p)
    \/ Case_R(p) \/ Case_number(p) \/ Case_j(p) \/ Case_I(p)
    \/ Case_i(p) \/ Case_a(p) \/ Case_r(p) \/ Case_T(p) \/ Case_h(p)
    \/ GetoptEnd(p)

Next ==
    \E p \in Procs :
        \/ Getopt(p) \/ LogOpen(p) \/ Backend(p) \/ Daemon(p)
        \/ BackgroundParent(p) \/ BackgroundChild(p) \/ NodeCreate(p)
        \/ AddTransform(p) \/ AddState(p) \/ Join(p)
        \/ WriteFile(p) \/ ReadFile(p) \/ ReadHistory(p) \/ RemoveFile(p)
        \/ SendCmd(p) \/ Lookup(p) \/ RequestStat(p)
        \/ Finish(p) \/ Sleep(p)

Spec == Init /\ [][Next]_vars

\* The getopt loop alone, on longer command lines.
InitGetopt == InitArgs(MaxOpts)
NextGetopt == \E p \in Procs : Getopt(p)
SpecGetopt == InitGetopt /\ [][NextGetopt]_vars

\* ===================================================================
\* Properties
\* ===================================================================
\* Helpers for reading the history.
NCalls == Len(calls)
LastCall == calls[NCalls]

\* Position of an operation in the documented order, 0 for other calls.
Rank(c) ==
    CASE c.fn = "dnet_write_file"                 -> 1
      [] c.fn = "dnet_read_file" /\ c.hist = 0    -> 2
      [] c.fn = "dnet_read_file" /\ c.hist = 1    -> 3
      [] c.fn = "dnet_remove_file"                -> 4
      [] c.fn = "dnet_send_cmd"                   -> 5
      [] c.fn = "dnet_lookup"                     -> 6
      [] c.fn = "dnet_request_stat"               -> 7
      [] OTHER                                    -> 0

\* Whether the operation of rank k was asked for on the command line.
Requested(k) ==
    CASE k = 1 -> opts.writef # NULL
      [] k = 2 -> opts.readf # NULL
      [] k = 3 -> opts.historyf # NULL
      [] k = 4 -> opts.removef # NULL
      [] k = 5 -> opts.cmd # NULL
      [] k = 6 -> opts.lookup # NULL
      [] k = 7 -> opts.stat
      [] OTHER -> FALSE

Executed(k) == \E a \in 1..NCalls : Rank(calls[a]) = k

\* The calls of one library function, in the order they were made.
CallsOf(fn) == SelectSeq(calls, LAMBDA c : c.fn = fn)

\* Process p is past the dispatch: at the final test, asleep, or returned
\* from main after dnet_node_destroy.
DispatchOver(p) ==
    \/ pc[p] \in {"finish", "sleep"}
    \/ /\ pc[p] = "exited"
       /\ NCalls > 0
       /\ LastCall.fn = "dnet_node_destroy"
       /\ LastCall.proc = p

\* C1: the operations are executed in the order write-file, read-file,
\* read-history, remove-file, send-command, lookup, request-stat whatever
\* the order of the flags: of two operation calls the earlier one has the
\* lower rank (so no kind is executed twice), only requested operations are
\* called, no call is made while an earlier one has not returned, and when
\* the dispatch is over every requested operation has been executed.
C1_FixedOrder ==
    /\ \A a, b \in 1..NCalls :
         (a < b /\ Rank(calls[a]) > 0 /\ Rank(calls[b]) > 0)
            => Rank(calls[a]) < Rank(calls[b])
    /\ \A a \in 1..NCalls : Rank(calls[a]) > 0 => Requested(Rank(calls[a]))
    /\ \A a \in 1..NCalls : a < NCalls => calls[a].done
    /\ \A p \in Procs : DispatchOver(p) => \A k \in 1..7 :
                                             Requested(k) => Executed(k)

\* Four operations were requested and all four have run, request-stat and
\* write-file among them.
C1_Witness ==
    /\ \E p \in Procs : pc[p] = "finish"
    /\ Cardinality({k \in 1..7 : Executed(k)}) = 4
    /\ Executed(1) /\ Executed(3) /\ Executed(7)

\* C2 as stated: after a failed operation every operation requested after
\* it in the dispatch order is still executed, and the exit code is not 0.
C2_FailureDoesNotSuppress ==
    \A a \in 1..NCalls :
        (/\ Rank(calls[a]) > 0
         /\ calls[a].done
         /\ calls[a].ret # 0
         /\ pc[calls[a].proc] = "exited")
        => /\ \A k \in 1..7 :
                (k > Rank(calls[a]) /\ Requested(k)) => Executed(k)
           /\ exit_code[calls[a].proc] # 0

\* C2, amended: a failed operation is the last call the process makes: it
\* returns from main at once with the operation's (non-zero) error code, so
\* no operation after it in the dispatch order is executed.
C2_FailureAborts ==
    \A a \in 1..NCalls :
        (Rank(calls[a]) > 0 /\ calls[a].done /\ calls[a].ret # 0)
        => /\ a = NCalls
           /\ pc[calls[a].proc] = "exited"
           /\ exit_code[calls[a].proc] = calls[a].ret
           /\ exit_code[calls[a].proc] # 0

\* write-file failed with read-file and request-stat also requested.
C2_Witness ==
    /\ NCalls > 0
    /\ LastCall.fn = "dnet_write_file"
    /\ LastCall.done
    /\ LastCall.ret # 0
    /\ Requested(2)
    /\ Requested(7)
    /\ pc[LastCall.proc] = "exited"

\* C3: dnet_add_state is attempted once for every entry of the remote list,
\* in list order, whatever the earlier attempts returned: the add_state
\* calls made so far are the first entries of the list, in order; a failed
\* attempt does not end the process; after the last attempt all entries
\* have been tried and the process stands at the join (if requested) or at
\* the dispatch, and every later call (join, operation, destroy) is made
\* with the whole list attempted.
C3_AllPeersAttempted ==
    LET adds == CallsOf("dnet_add_state")
    IN /\ Len(adds) <= have_remote
       /\ \A k \in 1..Len(adds) : adds[k].arg = remotes[k].addr
       /\ \A a \in 1..NCalls :
            calls[a].fn \in {"dnet_join", "dnet_node_destroy"}
              \/ Rank(calls[a]) > 0
            => Len(adds) = have_remote
       /\ (NCalls > 0 /\ LastCall.fn = "dnet_add_state")
            => LET p == LastCall.proc
               IN /\ pc[p] # "exited"
                  /\ Len(adds) < have_remote => pc[p] = "add_state"
                  /\ Len(adds) = have_remote =>
                       IF cfg.join THEN pc[p] = "join"
                       ELSE pc[p] \in {"write", "read", "history", "remove",
                                       "cmd", "lookup", "stat", "finish"}

\* Two remotes, both peer-adds failed, and the join and write-file that
\* were requested have been called all the same.
C3_Witness ==
    LET adds == CallsOf("dnet_add_state")
    IN /\ Len(adds) = 2
       /\ adds[1].ret # 0
       /\ adds[2].ret # 0
       /\ Len(CallsOf("dnet_join")) = 1
       /\ Executed(1)

\* C4: a failed dnet_join is fatal: it is the last call of the process,
\* which returns from main with the code dnet_join returned, so that no
\* operation is dispatched and the sleep loop is not entered; a successful
\* dnet_join lets the process go on, whatever the peer-adds returned.
C4_JoinFailureFatal ==
    \A a \in 1..NCalls :
        calls[a].fn = "dnet_join" =>
          LET p == calls[a].proc
          IN IF calls[a].ret # 0
               THEN /\ a = NCalls
                    /\ pc[p] = "exited"
                    /\ exit_code[p] = calls[a].ret
               ELSE a = NCalls => pc[p] # "exited"

\* Join failed after a successful peer-add, with write-file requested.
C4_Witness ==
    /\ NCalls > 1
    /\ LastCall.fn = "dnet_join"
    /\ LastCall.ret # 0
    /\ calls[NCalls - 1].fn = "dnet_add_state"
    /\ calls[NCalls - 1].ret = 0
    /\ Requested(1)
    /\ pc[LastCall.proc] = "exited"

\* C5, state part: the sleep loop is entered only after a successful
\* dnet_join and with the node never destroyed; dnet_node_destroy is called
\* at most once, by a process that did not join, after all its operations
\* succeeded, and that process then returns 0.
C5_EndState ==
    /\ \A p \in Procs : pc[p] = "sleep" =>
         /\ \E a \in 1..NCalls : /\ calls[a].fn = "dnet_join"
                                 /\ calls[a].ret = 0
         /\ Len(CallsOf("dnet_node_destroy")) = 0
    /\ Len(CallsOf("dnet_node_destroy")) <= 1
    /\ \A a \in 1..NCalls : calls[a].fn = "dnet_node_destroy" =>
         /\ a = NCalls
         /\ ~cfg.join
         /\ \A b \in 1..NCalls : Rank(calls[b]) > 0 => calls[b].ret = 0
         /\ pc[calls[a].proc] = "exited"
         /\ exit_code[calls[a].proc] = 0

\* C5, step part: from the end of a successful dispatch a joined process
\* goes to sleep and a process that did not join destroys the node and
\* returns 0; a sleeping process stays asleep, makes no call, does not exit.
C5_EndStep ==
    \A p \in Procs :
        /\ (pc[p] = "finish" /\ pc'[p] # pc[p]) =>
              IF cfg.join
                THEN pc'[p] = "sleep" /\ calls' = calls
                ELSE /\ pc'[p] = "exited"
                     /\ exit_code'[p] = 0
                     /\ Len(calls') = NCalls + 1
                     /\ calls'[NCalls + 1].fn = "dnet_node_destroy"
        /\ pc[p] = "sleep" => (pc'[p] = "sleep" /\ calls' = calls)

\* C5: after a dispatch in which every requested operation succeeded, a
\* joined process blocks forever without destroying the node or exiting,
\* a process that did not join destroys the node once and exits with 0;
\* the sleep loop is entered only after a successful join.
C5_ServeOrTeardown == []C5_EndState /\ [][C5_EndStep]_vars

\* A joined process is asleep after its write-file and lookup succeeded.
C5_Witness ==
    /\ \E p \in Procs : pc[p] = "sleep"
    /\ Executed(1)
    /\ Executed(6)

\* C6, step part: a -T given with fewer than trans_max - 1 engines in the
\* chain, whose engine is allocated and initialised, appends that engine
\* at the end; a -T given with trans_max - 1 engines is dropped with one
\* warning: the chain stays as it is, nothing is returned from main and
\* the getopt loop goes on.  Nothing else changes the chain.
C6_ChainStep ==
    /\ \A p \in Procs : Case_T(p) =>
         IF trans_num < trans_max - 1
           THEN /\ dropped' = dropped
                /\ pc'[p] = "getopt" =>
                     \E e \in TransNames : trans' = Append(trans, e)
           ELSE /\ trans' = trans
                /\ dropped' = dropped + 1
                /\ pc'[p] = "getopt"
                /\ exit_code' = exit_code
    /\ trans' # trans => (\E p \in Procs : Case_T(p))
    /\ dropped' # dropped => (\E p \in Procs : Case_T(p))

\* C6: the chain never holds more than trans_max - 1 = 4 engines; below
\* that bound -T appends one engine at the end, at the bound -T is dropped
\* with a warning, changes nothing, is not fatal and parsing continues.
C6_ChainBounded ==
    /\ [](trans_num <= trans_max - 1 /\ trans_max - 1 = 4)
    /\ [][C6_ChainStep]_vars

\* Four engines are in the chain, a fifth -T was dropped and the process
\* is still in the getopt loop.
C6_Witness ==
    /\ trans_num = trans_max - 1
    /\ dropped = 1
    /\ pc["main"] = "getopt"

\* C7 as stated: when fork fails the process exits with a non-zero code:
\* it makes no further call (no dnet_node_create, no later step).
C7_ForkFailureStops ==
    \A a \in 1..NCalls :
        (calls[a].fn = "fork" /\ calls[a].ret # 0)
        => /\ a = NCalls
           /\ ~detached
           /\ pc[calls[a].proc] = "exited" => exit_code[calls[a].proc] # 0

\* C8: when a root directory was given and the selected backend returns no
\* handle, main returns a non-zero code at once: the failed initialisation
\* is the only call ever made (no fork, no dnet_node_create, no operation)
\* and no second process exists.
C8_BackendFailureFatal ==
    \A a \in 1..NCalls :
        (/\ calls[a].fn \in {"tc_backend_init", "file_backend_setup_root"}
         /\ calls[a].ret # 0)
        => /\ NCalls = 1
           /\ opts.root # NULL
           /\ calls[a].fn = (IF opts.tc THEN "tc_backend_init"
                                        ELSE "file_backend_setup_root")
           /\ pc[calls[a].proc] = "exited"
           /\ exit_code[calls[a].proc] # 0
           /\ pc["child"] = "none"
           /\ ~detached
           /\ n = NULL

\* The key-value backend failed with -D and -W also on the command line.
C8_Witness ==
    /\ NCalls = 1
    /\ LastCall.fn = "tc_backend_init"
    /\ LastCall.ret # 0
    /\ opts.daemon
    /\ Requested(1)
    /\ pc["main"] = "exited"

\* C9 as stated: without -I the file operations get an unset identifier
\* and dnet_send_cmd gets an all-zero transaction identifier.
C9_DefaultIdentifiers ==
    id = NULL =>
      \A a \in 1..NCalls :
          /\ Rank(calls[a]) \in 1..4 => calls[a].id = NULL
          /\ Rank(calls[a]) = 5 => calls[a].id = "zero"

\* The peer loop has just ended: its last call is the last call made.
PeerLoopJustEnded ==
    /\ NCalls > 0
    /\ LastCall.fn = "dnet_add_state"
    /\ Len(CallsOf("dnet_add_state")) = have_remote

\* The return value of the last failed call of a sequence of calls.
RECURSIVE LastFailure(_)
LastFailure(cs) ==
    IF cs = <<>> THEN 0
    ELSE IF cs[Len(cs)].ret # 0 THEN cs[Len(cs)].ret
    ELSE LastFailure(SubSeq(cs, 1, Len(cs) - 1))

\* C10 as stated: if a dnet_add_state call failed, err holds the code of
\* the last failed one when the peer loop ends, and the failure is reported:
\* the process does not finish with exit code 0.
C10_LastPeerErrorKept ==
    LET adds == CallsOf("dnet_add_state")
    IN (\E k \in 1..Len(adds) : adds[k].ret # 0) =>
          /\ PeerLoopJustEnded => err = LastFailure(adds)
          /\ \A p \in Procs :
               (pc[p] = "exited" /\ NCalls > 0 /\ LastCall.proc = p)
                 => exit_code[p] # 0

\* C11: after the node is created the transforms are registered one by one
\* in chain order: the dnet_add_transform calls made so far are the first
\* entries of the chain, in order, and none precedes dnet_node_create; a
\* failed registration is the last call of the process, which returns from
\* main with that error (no later transform, no peer-add, no join, no
\* operation, and no call that would undo the earlier registrations); every
\* peer-add, join, operation or destroy is made with the whole chain
\* registered successfully.
C11_TransformsInOrder ==
    LET regs == CallsOf("dnet_add_transform")
    IN /\ Len(regs) <= trans_num
       /\ \A k \in 1..Len(regs) : regs[k].arg = trans[k]
       /\ \A a \in 1..NCalls : calls[a].fn = "dnet_add_transform" =>
            /\ \E b \in 1..(a - 1) : /\ calls[b].fn = "dnet_node_create"
                                     /\ calls[b].ret = 0
            /\ calls[a].ret # 0 =>
                 /\ a = NCalls
                 /\ pc[calls[a].proc] = "exited"
                 /\ exit_code[calls[a].proc] = calls[a].ret
       /\ \A a \in 1..NCalls :
            calls[a].fn \in {"dnet_add_state", "dnet_join",
                             "dnet_node_destroy"}
              \/ Rank(calls[a]) > 0
            => /\ Len(regs) = trans_num
               /\ \A k \in 1..Len(regs) : regs[k].ret = 0

\* -T sha1 -T md5 -r: sha1 was registered, md5 failed, and the process
\* has returned with one peer still in the remote list.
C11_Witness ==
    LET regs == CallsOf("dnet_add_transform")
    IN /\ trans = <<"sha1", "md5">>
       /\ Len(regs) = 2
       /\ regs[1].ret = 0
       /\ regs[2].ret # 0
       /\ have_remote = 1
       /\ \E p \in Procs : pc[p] = "exited" /\ exit_code[p] = regs[2].ret

\* The handle and the handler the -d / -t options ask for.
WantedBackend ==
    IF opts.root = NULL THEN NULL ELSE IF opts.tc THEN "tc" ELSE "file"

\* Process p is about to call dnet_node_create, or the call has been made.
AtNodeCreate ==
    \/ \E p \in Procs : pc[p] = "node_create"
    \/ \E a \in 1..NCalls : calls[a].fn = "dnet_node_create"

\* C12, state part: when dnet_node_create(&cfg) is reached, and from then
\* on, cfg.command_private and cfg.command_handler are both unset or both
\* set; they are the key-value pair with -d and -t, the tree pair with -d
\* alone and unset without -d; a backend is initialised only with -d.
C12_WiredState ==
    /\ AtNodeCreate =>
         /\ (cfg.command_private = NULL) <=> (cfg.command_handler = NULL)
         /\ cfg.command_private = WantedBackend
         /\ cfg.command_handler = WantedBackend
    /\ opts.root = NULL =>
         /\ Len(CallsOf("tc_backend_init")) = 0
         /\ Len(CallsOf("file_backend_setup_root")) = 0
         /\ \A p \in Procs : pc[p] # "backend"

\* C12, step part: without -d the end of option parsing (and of the log
\* file block) is no error: the process passes the backend block without a
\* call, with both fields unset, and stands at the daemon test or at
\* dnet_node_create.
C12_NoRootStep ==
    \A p \in Procs :
        (/\ opts.root = NULL
         /\ pc[p] = "getopt" \/ (pc[p] = "logopen" /\ cfg'.log # NULL)
         /\ pc'[p] # "getopt"
         /\ GetoptEnd(p) \/ LogOpen(p))
        => /\ pc'[p] \in {"logopen", "daemon", "node_create"}
           /\ calls' = calls
           /\ cfg'.command_private = NULL
           /\ cfg'.command_handler = NULL

\* C12: at node creation the backend handle and the command handler are
\* both set or both unset: both set exactly when a root directory was given
\* (key-value pair with -t, tree pair otherwise), both unset otherwise,
\* which is not an error and lets bootstrap proceed.
C12_BackendWiring == []C12_WiredState /\ [][C12_NoRootStep]_vars

\* The node was created with the key-value pair wired in.
C12_Witness ==
    /\ \E a \in 1..NCalls : calls[a].fn = "dnet_node_create"
    /\ opts.root # NULL
    /\ opts.tc
    /\ cfg.command_private = "tc"
    /\ cfg.command_handler = "tc"

\* C13 as stated: dnet_node_create is called only when the local address
\* was set by a successfully parsed -a.
C13_EndpointSetBeforeCreate ==
    \A a \in 1..NCalls :
        calls[a].fn = "dnet_node_create" => cfg.addr # NULL

\* One turn of the getopt loop for an option whose argument is parsed.
ParsedCase(p) ==
    Case_a(p) \/ Case_r(p) \/ Case_i(p) \/ Case_I(p) \/ Case_T(p)

\* No process is left: the one started by the shell has exited and the
\* child does not exist or has exited.
AllExited == \A p \in Procs : pc[p] \in {"none", "exited"}

\* C14, step part: a turn of the loop in which the parser of -a, -r, -i, -I
\* or -T reports an error returns that error from main in the same turn,
\* with the remaining options unread, no backend, no node and no call
\* made; and a program that has exited takes no further step.
C14_ParseErrorStep ==
    /\ \A p \in Procs :
         (ParsedCase(p) /\ err' # 0) =>
            /\ pc'[p] = "exited"
            /\ exit_code'[p] = err'
            /\ exit_code'[p] # 0
            /\ nargs' = nargs - 1
            /\ opts' = opts
            /\ calls' = <<>>
            /\ n' = NULL
            /\ cfg'.command_private = NULL
            /\ pc'["child"] = "none"
    /\ AllExited => UNCHANGED vars

\* C14: a parse error aborts the process at once with a non-zero exit
\* code: no later option is processed, no backend is initialised, no node
\* is created and no operation is executed.
C14_ParseErrorAborts ==
    /\ [](\A p \in Procs :
            (pc[p] = "exited" /\ nargs > 0) =>
               /\ exit_code[p] # 0
               /\ NCalls = 0
               /\ n = NULL
               /\ cfg.command_private = NULL)
    /\ [][C14_ParseErrorStep]_vars

\* A parser failed after -d and -W were read, with one option unread.
C14_Witness ==
    /\ pc["main"] = "exited"
    /\ err = -22
    /\ exit_code["main"] = -22
    /\ nargs = 1
    /\ opts.root # NULL
    /\ Requested(1)
    /\ NCalls = 0

\* C15: when -D is given and fork succeeds, the parent does nothing but
\* exit with code 0 and the child alone goes on: every call after the fork
\* is made by the child, after it detached; dnet_node_create is called at
\* most once; a second process exists only after a successful fork.
C15_OnlyChildBootstraps ==
    /\ Len(CallsOf("dnet_node_create")) <= 1
    /\ Len(CallsOf("fork")) <= 1
    /\ \A a \in 1..NCalls : calls[a].fn = "fork" => opts.daemon
    /\ pc["child"] # "none" <=>
         \E a \in 1..NCalls : calls[a].fn = "fork" /\ calls[a].ret = 0
    /\ \A a \in 1..NCalls :
         (calls[a].fn = "fork" /\ calls[a].ret = 0) =>
            /\ calls[a].proc = "main"
            /\ pc["main"] \in {"bg_parent", "exited"}
            /\ pc["main"] = "exited" => exit_code["main"] = 0
            /\ \A b \in 1..NCalls : b > a =>
                 /\ calls[b].proc = "child"
                 /\ detached
    /\ \A a \in 1..NCalls :
         calls[a].proc = "child" =>
            \E b \in 1..(a - 1) : calls[b].fn = "fork" /\ calls[b].ret = 0

\* The parent has exited with 0; the child created the node and has
\* started the requested write-file.
C15_Witness ==
    /\ pc["main"] = "exited"
    /\ exit_code["main"] = 0
    /\ detached
    /\ \E a \in 1..NCalls : /\ calls[a].fn = "dnet_node_create"
                            /\ calls[a].proc = "child"
                            /\ calls[a].ret = 0
    /\ \E a \in 1..NCalls : /\ calls[a].fn = "dnet_write_file"
                            /\ calls[a].proc = "child"

\* The step of main a call belongs to, in the documented order.
Phase(c) ==
    CASE c.fn \in {"tc_backend_init", "file_backend_setup_root"} -> 1
      [] c.fn = "fork"                -> 2
      [] c.fn = "dnet_node_create"    -> 3
      [] c.fn = "dnet_add_transform"  -> 4
      [] c.fn = "dnet_add_state"      -> 5
      [] c.fn = "dnet_join"           -> 6
      [] Rank(c) > 0                  -> 7
      [] c.fn = "dnet_node_destroy"   -> 8
      [] OTHER                        -> 0

\* Among the calls before the b-th there is a successful call of fn.
DoneBefore(b, fn) ==
    \E a \in 1..(b - 1) : calls[a].fn = fn /\ calls[a].done /\ calls[a].ret = 0

\* C16: the steps of a run happen in the order option parsing, backend
\* selection, daemonizing, node creation, transform registration, peer
\* adds, join, operations, then sleep loop or teardown, each after the
\* earlier ones that apply have finished: no call is made before getopt
\* has returned -1; the calls are ordered by step and each has returned
\* before the next; a call is made only with the backend initialised (if
\* -d), the fork made (if -D), the node created, the whole chain
\* registered, the whole remote list tried and the join succeeded (if -j);
\* teardown and the sleep loop come after every requested operation.
C16_StepOrder ==
    /\ NCalls > 0 => (nargs = 0 /\ pc["main"] # "getopt")
    /\ \A a, b \in 1..NCalls : a < b =>
         /\ Phase(calls[a]) <= Phase(calls[b])
         /\ calls[a].done
    /\ \A b \in 1..NCalls :
         LET k == Phase(calls[b])
         IN /\ k > 0
            /\ (k > 1 /\ opts.root # NULL) =>
                  \E a \in 1..(b - 1) : Phase(calls[a]) = 1 /\ calls[a].ret = 0
            /\ (k > 2 /\ opts.daemon) =>
                  \E a \in 1..(b - 1) : calls[a].fn = "fork"
            /\ k > 3 => DoneBefore(b, "dnet_node_create")
            /\ k > 4 =>
                  /\ Len(CallsOf("dnet_add_transform")) = trans_num
                  /\ \A a \in 1..NCalls :
                       calls[a].fn = "dnet_add_transform" => calls[a].ret = 0
            /\ k > 5 => Len(CallsOf("dnet_add_state")) = have_remote
            /\ (k > 6 /\ cfg.join) => DoneBefore(b, "dnet_join")
            /\ k > 7 => \A r \in 1..7 : Requested(r) => Executed(r)
    /\ \A p \in Procs : pc[p] = "sleep" =>
         /\ \A r \in 1..7 : Requested(r) => Executed(r)
         /\ \A a \in 1..NCalls : calls[a].done
         /\ DoneBefore(NCalls + 1, "dnet_join")

\* -d -T -r -j: backend, node, transform, peer and join were done in that
\* order and the process is asleep.
C16_Witness ==
    /\ NCalls = 5
    /\ Phase(calls[1]) = 1
    /\ Phase(calls[2]) = 3
    /\ Phase(calls[3]) = 4
    /\ Phase(calls[4]) = 5
    /\ Phase(calls[5]) = 6
    /\ \E p \in Procs : pc[p] = "sleep"

\* C17, step part: a turn of the loop for -r whose address parses and
\* whose realloc succeeds appends to remotes one entry equal to the scratch
\* struct as the parser left it, behind the entries already there; every
\* other turn, whatever it does to the scratch struct, leaves remotes as it
\* was.
C17_RemoteStep ==
    /\ \A p \in Procs :
         (Case_r(p) /\ pc'[p] = "getopt") =>
            /\ err' = 0
            /\ remotes' = Append(remotes, rem')
    /\ remotes' # remotes =>
         /\ \E p \in Procs : Case_r(p)
         /\ Len(remotes') = Len(remotes) + 1
         /\ SubSeq(remotes', 1, Len(remotes)) = remotes
         /\ remotes'[Len(remotes')] = rem'
         /\ pc' = pc

\* C17: the remote list holds one entry per successfully parsed -r, in
\* command-line order, each a copy of the scratch struct taken at its -r:
\* a later -r or any other option does not change an entry already in the
\* list.  The scratch struct is the copy of the defaults made before the
\* loop with only its address rewritten, and while the loop runs it holds
\* the address of the last -r.
C17_RemoteCopies ==
    /\ [](/\ \A k \in 1..Len(remotes) :
               /\ remotes[k].addr \in Addrs
               /\ remotes[k] = [DefaultConfig EXCEPT !.addr = remotes[k].addr]
          /\ pc["main"] = "getopt" =>
               rem = IF have_remote > 0 THEN remotes[have_remote]
                                        ELSE DefaultConfig)
    /\ [][C17_RemoteStep]_vars

\* Two -r with different addresses were parsed, then -j: the first entry
\* still holds the first address although the scratch struct holds the
\* second.
C17_Witness ==
    /\ pc["main"] = "getopt"
    /\ have_remote = 2
    /\ remotes[1].addr = "a1"
    /\ remotes[2].addr = "a2"
    /\ rem.addr = "a2"
    /\ cfg.join

\* The calls of fn made by process p.
CallsBy(p, fn) ==
    SelectSeq(calls, LAMBDA c : c.proc = p /\ c.fn = fn)

\* C18: on every path on which the process exits by itself after the node
\* was created (transform registration failure, join failure, failure of a
\* dispatched operation, or full success without join), the node has been
\* destroyed exactly once before the exit: a process that has returned
\* from main and whose dnet_node_create succeeded has made exactly one
\* call of dnet_node_destroy, and that call has returned.
C18_DestroyedBeforeExit ==
    \A p \in Procs :
        (/\ pc[p] = "exited"
         /\ \E a \in 1..NCalls :
              /\ calls[a].proc = p
              /\ calls[a].fn = "dnet_node_create"
              /\ calls[a].ret = 0) =>
           /\ Len(CallsBy(p, "dnet_node_destroy")) = 1
           /\ \A a \in 1..NCalls :
                calls[a].fn = "dnet_node_destroy" => calls[a].done

====
